---- MODULE Spec2Model ----
(***************************************************************************)
(* clear_on_drop: the Clear capability (clear.rs), the Clearable variant   *)
(* (clearable.rs), the optimizer barrier (hide.rs) and the ClearOnDrop     *)
(* wrapper (clear_on_drop.rs), as a state machine over byte-level storage. *)
(***************************************************************************)
EXTENDS Integers, Sequences, FiniteSets

\* ------------------------------------------------------------------ bounds
MaxLen == 2
MaxByte == 2

\* ------------------------------------------------------------ value domain
Byte == 0..MaxByte
Contents(n) == [1..n -> Byte]
AllContents == UNION {Contents(n) : n \in 0..MaxLen}
Zeros(n) == [i \in 1..n |-> 0]
AllZero(v) == \A i \in 1..Len(v) : v[i] = 0
NoZero(v) == \A i \in 1..Len(v) : v[i] # 0

\* Storage locations: the caller's stack slot behind a `&mut T`, the heap
\* allocation behind a `Box<T>`.
Addrs == {"stack", "heap"}
Kinds == {"borrow", "box"}
Place(k) == [kind |-> k, addr |-> IF k = "borrow" THEN "stack" ELSE "heap"]
NoPlace == [kind |-> "none", addr |-> "none"]

\* The wrapped type: a slice of zero-safe elements (no drop glue, empty
\* initialize) or a Default type (initialize writes Default::default()).
Types ==
    {[kind |-> "slice", dflt |-> Zeros(n)] : n \in 0..MaxLen}
    \cup {[kind |-> "dflt", dflt |-> d] : d \in AllContents}

Realizations == {"nightly", "cc", "fallback"}

VARIABLES
    T,            \* the type of the value behind the handle
    realization,  \* which hide_mem_impl the build selected
    place,        \* the handle the caller constructed
    mem,          \* bytes at each storage location
    live,         \* heap allocations not yet deallocated
    val,          \* what the bytes at the target are: "valid", "torn", "zeroed"
    c,            \* the ClearOnDrop: [_place, st]
    pc,           \* position of the single thread of control
    caller,       \* who invoked the clear in progress
    target,       \* the location the clear in progress works on
    unwinding,    \* a panic is propagating
    panicked,     \* the step that panicked last ("none" if none)
    clog,         \* steps of the clear in progress (or the last one), in order
    zeroFills,    \* zero-fill steps executed on the target
    teardowns,    \* teardowns run on the value currently at the target
    ret,          \* the handle returned to the caller
    via,          \* the terminating operation applied to the wrapper
    atCall,       \* content at the time of the terminating call
    direct,       \* twin storage, accessed directly through the handle
    DUMMY,        \* fallback::hide_mem_impl's static
    copies        \* clone_from calls completed on the wrapper

vars == <<T, realization, place, mem, live, val, c, pc, caller, target,
          unwinding, panicked, clog, zeroFills, teardowns, ret, via, atCall,
          direct, DUMMY, copies>>

\* ------------------------------------------------------- clear.rs (Clear)
\* A faulty size_of_val: one byte short of the value's size.
size_of_val_short(m, a) == Len(m[a]) - 1

\* mem::size_of_val(self): the full in-memory size of the value.
size_of_val(m, a) == Len(m[a])

\* A faulty write_bytes: the last byte of the region is not written.
write_bytes_short(m, a, size) ==
    [m EXCEPT ![a] = [i \in 1..Len(m[a]) |-> IF i < size THEN 0 ELSE m[a][i]]]

\* ptr::write_bytes(ptr as *mut u8, 0, size).
write_bytes(m, a, size) ==
    [m EXCEPT ![a] = [i \in 1..Len(m[a]) |-> IF i <= size THEN 0 ELSE m[a][i]]]

\* A faulty initialize: the reconstruction is left out.
initialize_skipped(ty, m, a) == m

\* InitializableFromZeroed::initialize: ptr::write(place, Default::default())
\* for T: Default, nothing for [T] where T: ZeroSafe.
initialize(ty, m, a) ==
    IF ty.kind = "dflt" THEN [m EXCEPT ![a] = ty.dflt] ELSE m

\* What clear leaves behind: zero for a slice, the default for T: Default.
PostZero(ty, n) == IF ty.kind = "dflt" THEN ty.dflt ELSE Zeros(n)

\* -------------------------------------------------------------- hide.rs
\* The dummy C function behind cc::hide_mem_impl: takes the region's address
\* and returns it unchanged, touching nothing.
clear_on_drop_hide(m, a) == [mem |-> m, ret |-> a]

\* A faulty hide_mem_impl: the barrier overwrites the region it is given.
hide_mem_impl_clobber(r, m, a, dummy) ==
    [mem |-> [m EXCEPT ![a] = IF a = "local" THEN NoPlace ELSE Zeros(Len(m[a]))],
     DUMMY |-> dummy]

\* nightly / cc / fallback hide_mem_impl on the region at address a.
hide_mem_impl(r, m, a, dummy) ==
    CASE r = "nightly"  -> [mem |-> m, DUMMY |-> dummy]
      [] r = "cc"       -> [mem |-> clear_on_drop_hide(m, a).mem, DUMMY |-> dummy]
      [] r = "fallback" -> [mem |-> m, DUMMY |-> a]

\* hide_mem(ptr: &mut T) forwards to hide_mem_impl.
hide_mem(r, m, a, dummy) == hide_mem_impl(r, m, a, dummy)

\* ------------------------------------------- clear_on_drop.rs (operators)
\* ClearOnDrop::new.
new(p) == [_place |-> p, st |-> "active"]

\* ptr::read(&c._place) in into_uncleared_place.
ptr_read(cw) == cw._place

\* A faulty forget: the wrapper is not forgotten and stays Active.
forget_missing(cw) == cw

\* mem::forget(c): the wrapper's destructor will never run.
forget(cw) == [cw EXCEPT !.st = "forgotten"]

\* The handle's own Deref / DerefMut: the location it refers to.
P_deref(p) == p.addr
P_deref_mut(p) == p.addr

\* impl Deref / DerefMut for ClearOnDrop.
deref(cw) == P_deref(cw._place)
deref_mut(cw) == P_deref_mut(cw._place)

\* The handle's own operations (what the wrapper's impls forward to); a
\* handle compares, hashes and indexes by the content it refers to.
P_index(p, i, m) == m[P_deref(p)][i]
P_index_mut(p, i, b, m) == [m EXCEPT ![P_deref_mut(p)][i] = b]
P_eq(p, q, m) == m[P_deref(p)] = m[P_deref(q)]
P_ne(p, q, m) == m[P_deref(p)] # m[P_deref(q)]

RECURSIVE LexCmp(_, _, _)
LexCmp(v, w, i) ==
    IF i > Len(v) /\ i > Len(w) THEN "Equal"
    ELSE IF i > Len(v) THEN "Less"
    ELSE IF i > Len(w) THEN "Greater"
    ELSE IF v[i] < w[i] THEN "Less"
    ELSE IF v[i] > w[i] THEN "Greater"
    ELSE LexCmp(v, w, i + 1)

P_cmp(p, q, m) == LexCmp(m[P_deref(p)], m[P_deref(q)], 1)
P_partial_cmp(p, q, m) == P_cmp(p, q, m)
P_lt(p, q, m) == P_cmp(p, q, m) = "Less"
P_le(p, q, m) == P_cmp(p, q, m) # "Greater"
P_gt(p, q, m) == P_cmp(p, q, m) = "Greater"
P_ge(p, q, m) == P_cmp(p, q, m) # "Less"

RECURSIVE HashFold(_, _, _)
HashFold(v, i, state) ==
    IF i > Len(v) THEN state
    ELSE HashFold(v, i + 1, (state * 31 + v[i] + 1) % 65536)

P_hash(p, state, m) == HashFold(m[P_deref(p)], 1, state)

\* `*p += &r`: every element takes r, wrapping at the element's width.
P_add_assign(p, r, m) ==
    [m EXCEPT ![P_deref_mut(p)] =
        [i \in 1..Len(m[P_deref_mut(p)]) |-> (m[P_deref_mut(p)][i] + r) % (MaxByte + 1)]]

\* impl Index / IndexMut for ClearOnDrop.
index(cw, i, m) == P_index(cw._place, i, m)
index_mut(cw, i, b, m) == P_index_mut(cw._place, i, b, m)

\* A faulty eq: handles compared by address, not through PartialEq of P.
eq_by_address(cw, other, m) == cw._place.addr = other._place.addr

\* impl PartialEq / PartialOrd / Ord for ClearOnDrop.
eq(cw, other, m) == P_eq(cw._place, other._place, m)
ne(cw, other, m) == P_ne(cw._place, other._place, m)
partial_cmp(cw, other, m) == P_partial_cmp(cw._place, other._place, m)
lt(cw, other, m) == P_lt(cw._place, other._place, m)
le(cw, other, m) == P_le(cw._place, other._place, m)
gt(cw, other, m) == P_gt(cw._place, other._place, m)
ge(cw, other, m) == P_ge(cw._place, other._place, m)
cmp(cw, other, m) == P_cmp(cw._place, other._place, m)

\* impl Hash for ClearOnDrop.
hash(cw, state, m) == P_hash(cw._place, state, m)

\* delegate_ops!(AddAssign, add_assign, ..): $trait_assign<&'r R>.
add_assign(cw, r, m) == P_add_assign(cw._place, r, m)

\* ------------------------------------------------------------ ClearOnDrop
NoWrapper == [_place |-> NoPlace, st |-> "none"]
Target == place.addr
Other == IF Target = "stack" THEN "heap" ELSE "stack"

\* The state every specification starts from, before its own Init picks
\* the position of control.
InitCommon ==
    /\ T \in Types
    /\ realization \in Realizations
    /\ place \in {Place(k) : k \in Kinds}
    /\ live = {"heap"}
    /\ val = "valid"
    /\ c = NoWrapper
    /\ caller = "none"
    /\ target = "none"
    /\ unwinding = FALSE
    /\ panicked = "none"
    /\ clog = <<>>
    /\ zeroFills = 0
    /\ teardowns = 0
    /\ ret = NoPlace
    /\ via = "none"
    /\ atCall = <<>>
    /\ DUMMY = "none"
    /\ copies = 0

\* `let place: Box<Place> = Box::new(Default::default())`,
\* `vec![0; 4].into_boxed_slice()`: the storage starts at the post-zero
\* value; the secret is written through the wrapper.
Init ==
    /\ InitCommon
    /\ mem = [a \in Addrs |-> PostZero(T, Len(T.dflt))]
    /\ direct = mem
    /\ pc = "start"

\* let mut clear = ClearOnDrop::new(place);
New ==
    /\ pc = "start"
    /\ c' = new(place)
    /\ pc' = "active"
    /\ UNCHANGED <<copies, T, realization, place, mem, live, val, caller, target,
                   unwinding, panicked, clog, zeroFills, teardowns, ret, via,
                   atCall, direct, DUMMY>>

\* `*clear = v` (clear.data = DATA; clear.copy_from_slice(&DATA)).
Write ==
    /\ pc = "active"
    /\ \E v \in Contents(Len(mem[Target])) :
        /\ mem' = [mem EXCEPT ![deref_mut(c)] = v]
        /\ direct' = [direct EXCEPT ![P_deref_mut(place)] = v]
    /\ UNCHANGED <<copies, T, realization, place, live, val, c, pc, caller, target,
                   unwinding, panicked, clog, zeroFills, teardowns, ret, via,
                   atCall, DUMMY>>

\* clear[i] = b.
IndexWrite ==
    /\ pc = "active"
    /\ \E i \in 1..Len(mem[Target]), b \in Byte :
        /\ mem' = index_mut(c, i, b, mem)
        /\ direct' = P_index_mut(place, i, b, direct)
    /\ UNCHANGED <<copies, T, realization, place, live, val, c, pc, caller, target,
                   unwinding, panicked, clog, zeroFills, teardowns, ret, via,
                   atCall, DUMMY>>

\* clear += &r.
AddAssign ==
    /\ pc = "active"
    /\ \E r \in Byte :
        /\ mem' = add_assign(c, r, mem)
        /\ direct' = P_add_assign(place, r, direct)
    /\ UNCHANGED <<copies, T, realization, place, live, val, c, pc, caller, target,
                   unwinding, panicked, clog, zeroFills, teardowns, ret, via,
                   atCall, DUMMY>>

\* ptr::read(&c._place); mem::forget(c); place -- the body shared by a
\* direct call and by the tail of into_place. `c` is a local of the
\* function: were it still Active at the closing brace, its destructor
\* would run there.
Extract ==
    /\ ret' = ptr_read(c)
    /\ c' = forget(c)
    /\ IF c'.st = "active"
         THEN /\ pc' = "drop_in_place"
              /\ caller' = "drop"
              /\ target' = deref_mut(c)
              /\ clog' = <<>>
         ELSE /\ pc' = "returned"
              /\ UNCHANGED <<caller, target, clog>>

\* ClearOnDrop::into_uncleared_place(c).
into_uncleared_place ==
    /\ pc = "active"
    /\ via' = "into_uncleared_place"
    /\ atCall' = mem[deref(c)]
    /\ Extract
    /\ UNCHANGED <<copies, T, realization, place, mem, live, val, unwinding, panicked,
                   zeroFills, teardowns, direct, DUMMY>>

\* ClearOnDrop::into_place(c), up to its call c.clear().
into_place ==
    /\ pc = "active"
    /\ via' = "into_place"
    /\ atCall' = mem[deref(c)]
    /\ caller' = "into_place"
    /\ target' = deref_mut(c)
    /\ clog' = <<>>
    /\ pc' = "drop_in_place"
    /\ UNCHANGED <<copies, T, realization, place, mem, live, val, c, unwinding,
                   panicked, zeroFills, teardowns, ret, direct, DUMMY>>

\* ClearOnDrop::into_place(c), after c.clear() returned:
\* Self::into_uncleared_place(c).
into_place_tail ==
    /\ pc = "into_place_tail"
    /\ Extract
    /\ UNCHANGED <<copies, T, realization, place, mem, live, val, unwinding, panicked,
                   zeroFills, teardowns, via, atCall, direct, DUMMY>>

\* The wrapper goes out of scope while Active: Drop::drop calls self.clear().
drop ==
    /\ pc = "active"
    /\ via' = "drop"
    /\ atCall' = mem[deref(c)]
    /\ caller' = "drop"
    /\ target' = deref_mut(c)
    /\ clog' = <<>>
    /\ pc' = "drop_in_place"
    /\ UNCHANGED <<copies, T, realization, place, mem, live, val, c, unwinding,
                   panicked, zeroFills, teardowns, ret, direct, DUMMY>>

\* Whether a teardown run now is a teardown of a value (zeroed bytes that
\* were never reconstructed hold no value).
TornBy(v) == IF v = "zeroed" THEN "zeroed" ELSE "torn"
Counted(v) == IF v = "zeroed" THEN 0 ELSE 1

\* Where control goes when clear returns.
ReturnTo(who) ==
    CASE who = "into_place" -> "into_place_tail"
      [] who = "drop"       -> "release"
      [] who = "clear"      -> "cleared"
      [] who = "clone_from" -> "clone_from_tail"

\* Clear::clear, step 1: ptr::drop_in_place(ptr). A Default type may carry
\* a Drop impl, and that may panic; slices of zero-safe elements have no
\* drop glue.
clear_drop_in_place ==
    /\ pc = "drop_in_place"
    /\ clog' = Append(clog, "drop_in_place")
    /\ val' = TornBy(val)
    /\ teardowns' = teardowns + Counted(val)
    /\ \/ pc' = "write_bytes" /\ panicked' = panicked
       \/ T.kind = "dflt" /\ pc' = "panic" /\ panicked' = "drop_in_place"
    /\ UNCHANGED <<copies, T, realization, place, mem, live, c, caller, target,
                   unwinding, zeroFills, ret, via, atCall, direct, DUMMY>>

\* Clear::clear, step 2: ptr::write_bytes(ptr as *mut u8, 0, size).
clear_write_bytes ==
    /\ pc = "write_bytes"
    /\ clog' = Append(clog, "write_bytes")
    /\ mem' = write_bytes(mem, target, size_of_val(mem, target))
    /\ val' = "zeroed"
    /\ zeroFills' = zeroFills + 1
    /\ pc' = "hide_mem"
    /\ UNCHANGED <<copies, T, realization, place, live, c, caller, target, unwinding,
                   panicked, teardowns, ret, via, atCall, direct, DUMMY>>

\* Clear::clear, step 3: hide_mem_impl::<Self>(ptr).
clear_hide_mem ==
    /\ pc = "hide_mem"
    /\ clog' = Append(clog, "hide_mem")
    /\ mem' = hide_mem_impl(realization, mem, target, DUMMY).mem
    /\ DUMMY' = hide_mem_impl(realization, mem, target, DUMMY).DUMMY
    /\ pc' = "initialize"
    /\ UNCHANGED <<copies, T, realization, place, live, val, c, caller, target,
                   unwinding, panicked, zeroFills, teardowns, ret, via,
                   atCall, direct>>

\* Clear::clear, step 4: Self::initialize(ptr). Default::default() is
\* evaluated before ptr::write, so when it panics nothing is written.
clear_initialize ==
    /\ pc = "initialize"
    /\ clog' = Append(clog, "initialize")
    /\ \/ /\ mem' = initialize(T, mem, target)
          /\ val' = "valid"
          /\ teardowns' = 0
          /\ pc' = ReturnTo(caller)
          /\ panicked' = panicked
       \/ /\ T.kind = "dflt"
          /\ pc' = "panic"
          /\ panicked' = "initialize"
          /\ UNCHANGED <<mem, val, teardowns>>
    /\ UNCHANGED <<copies, T, realization, place, live, c, caller, target, unwinding,
                   zeroFills, ret, via, atCall, direct, DUMMY>>

\* A panic inside clear. While already unwinding it aborts the process.
\* Otherwise unwinding starts: out of into_place it drops the local `c`
\* (Drop::drop, so clear again), and so it does out of clone_from, in the
\* frame that owns the wrapper; out of Drop::drop the drop glue goes on to
\* the field; out of a direct call it reaches the caller.
unwind ==
    /\ pc = "panic"
    /\ \/ /\ unwinding
          /\ pc' = "aborted"
          /\ UNCHANGED <<unwinding, caller, clog>>
       \/ /\ ~unwinding
          /\ unwinding' = TRUE
          /\ \/ caller \in {"into_place", "clone_from"} /\ caller' = "drop"
                /\ clog' = <<>> /\ pc' = "drop_in_place"
             \/ caller = "drop" /\ pc' = "release" /\ UNCHANGED <<caller, clog>>
             \/ caller \in {"clear", "clearable"} /\ pc' = "panicked"
                /\ UNCHANGED <<caller, clog>>
    /\ UNCHANGED <<copies, T, realization, place, mem, live, val, c, target, panicked,
                   zeroFills, teardowns, ret, via, atCall, direct, DUMMY>>

\* Drop glue of the field `_place`, after Drop::drop returned or unwound:
\* nothing for a borrow; a Box tears down its content and deallocates.
release ==
    /\ pc = "release"
    /\ c' = [c EXCEPT !.st = "dropped"]
    /\ \/ /\ c._place.kind = "borrow"
          /\ pc' = "done"
          /\ UNCHANGED <<live, val, teardowns, unwinding>>
       \/ /\ c._place.kind = "box"
          /\ val' = TornBy(val)
          /\ teardowns' = teardowns + Counted(val)
          /\ \/ /\ live' = live \ {c._place.addr}
                /\ pc' = "end"
                /\ UNCHANGED unwinding
             \/ /\ T.kind = "dflt"
                /\ IF unwinding
                     THEN pc' = "aborted" /\ UNCHANGED <<live, unwinding>>
                     ELSE /\ unwinding' = TRUE
                          /\ live' = live \ {c._place.addr}
                          /\ pc' = "end"
    /\ UNCHANGED <<copies, T, realization, place, mem, caller, target, panicked, clog,
                   zeroFills, ret, via, atCall, direct, DUMMY>>

\* The caller's own scope ends: the returned handle, or the storage that was
\* lent to the wrapper, meets its ordinary destruction.
scope_end ==
    /\ pc \in {"returned", "done"}
    /\ val' = TornBy(val)
    /\ teardowns' = teardowns + Counted(val)
    /\ live' = IF place.kind = "box" THEN live \ {place.addr} ELSE live
    /\ pc' = "end"
    /\ UNCHANGED <<copies, T, realization, place, mem, c, caller, target, unwinding,
                   panicked, clog, zeroFills, ret, via, atCall, direct, DUMMY>>

Next ==
    \/ New
    \/ Write
    \/ IndexWrite
    \/ AddAssign
    \/ into_uncleared_place
    \/ into_place
    \/ into_place_tail
    \/ drop
    \/ clear_drop_in_place
    \/ clear_write_bytes
    \/ clear_hide_mem
    \/ clear_initialize
    \/ unwind
    \/ release
    \/ scope_end

Spec == Init /\ [][Next]_vars

\* ------------------------------------------- clear called on a value itself
\* `let mut place = MyData { .. }; place.clear();`
InitClear ==
    /\ InitCommon
    /\ \E v \in Contents(Len(T.dflt)) : mem = [a \in Addrs |-> v]
    /\ direct = mem
    /\ pc = "call"

\* Clear::clear, entry: size and ptr are taken.
clear ==
    /\ pc = "call"
    /\ via' = "Clear"
    /\ atCall' = mem[Target]
    /\ caller' = "clear"
    /\ target' = Target
    /\ clog' = <<>>
    /\ pc' = "drop_in_place"
    /\ UNCHANGED <<copies, T, realization, place, mem, live, val, c, unwinding,
                   panicked, zeroFills, teardowns, ret, direct, DUMMY>>

\* Clearable::clear for T: Copy+Default, `*self = mem::zeroed()`: the
\* assignment drops the previous value (a Copy type has no Drop) and stores
\* the zeroed one.
clearable_assign_zeroed ==
    /\ pc = "call"
    /\ T.kind = "dflt"
    /\ via' = "Clearable"
    /\ atCall' = mem[Target]
    /\ caller' = "clearable"
    /\ target' = Target
    /\ clog' = <<"drop_in_place", "write_bytes">>
    /\ mem' = write_bytes(mem, Target, size_of_val(mem, Target))
    /\ val' = "zeroed"
    /\ teardowns' = teardowns + Counted(val)
    /\ zeroFills' = zeroFills + 1
    /\ pc' = "clearable_write"
    /\ UNCHANGED <<copies, T, realization, place, live, c, unwinding, panicked, ret,
                   direct, DUMMY>>

\* Clearable::clear, `ptr::write(self, Default::default())`.
clearable_write_default ==
    /\ pc = "clearable_write"
    /\ clog' = Append(clog, "initialize")
    /\ \/ /\ mem' = [mem EXCEPT ![target] = T.dflt]
          /\ val' = "valid"
          /\ teardowns' = 0
          /\ pc' = "clearable_hide"
          /\ panicked' = panicked
       \/ /\ pc' = "panic"
          /\ panicked' = "initialize"
          /\ UNCHANGED <<mem, val, teardowns>>
    /\ UNCHANGED <<copies, T, realization, place, live, c, caller, target, unwinding,
                   zeroFills, ret, via, atCall, direct, DUMMY>>

\* Clearable::clear, `hide_mem::<T>(self)`.
clearable_hide_mem ==
    /\ pc = "clearable_hide"
    /\ clog' = Append(clog, "hide_mem")
    /\ mem' = hide_mem(realization, mem, target, DUMMY).mem
    /\ DUMMY' = hide_mem(realization, mem, target, DUMMY).DUMMY
    /\ pc' = "cleared"
    /\ UNCHANGED <<copies, T, realization, place, live, val, c, caller, target,
                   unwinding, panicked, zeroFills, teardowns, ret, via,
                   atCall, direct>>

NextClear ==
    \/ clear
    \/ clear_drop_in_place
    \/ clear_write_bytes
    \/ clear_hide_mem
    \/ clear_initialize
    \/ clearable_assign_zeroed
    \/ clearable_write_default
    \/ clearable_hide_mem
    \/ unwind

SpecClear == InitClear /\ [][NextClear]_vars

\* ------------------------------------------------- the barrier on its own
\* hide_ptr(mut ptr: P): the parameter is a local slot holding the handle;
\* hide_mem::<P>(&mut ptr) works on that slot; the slot's content is returned.
hide_ptr(r, p, m, dummy) ==
    LET slot == [a \in DOMAIN m \cup {"local"} |-> IF a = "local" THEN p ELSE m[a]]
        h == hide_mem(r, slot, "local", dummy)
    IN [ret |-> h.mem["local"],
        mem |-> [a \in DOMAIN m |-> h.mem[a]],
        DUMMY |-> h.DUMMY]

InitHide ==
    /\ InitCommon
    /\ \E v \in Contents(Len(T.dflt)) : mem = [a \in Addrs |-> v]
    /\ direct = mem
    /\ pc = "call"

\* super::hide_mem(&mut place); hide_mem::<[u64]>(place.as_mut_slice()).
call_hide_mem ==
    /\ pc = "call"
    /\ via' = "hide_mem"
    /\ atCall' = mem[Target]
    /\ mem' = hide_mem(realization, mem, Target, DUMMY).mem
    /\ DUMMY' = hide_mem(realization, mem, Target, DUMMY).DUMMY
    /\ pc' = "hidden"
    /\ UNCHANGED <<copies, T, realization, place, live, val, c, caller, target,
                   unwinding, panicked, clog, zeroFills, teardowns, ret,
                   direct>>

\* let after = super::hide_ptr(&mut place);
call_hide_ptr ==
    /\ pc = "call"
    /\ via' = "hide_ptr"
    /\ atCall' = mem[Target]
    /\ ret' = hide_ptr(realization, place, mem, DUMMY).ret
    /\ mem' = hide_ptr(realization, place, mem, DUMMY).mem
    /\ DUMMY' = hide_ptr(realization, place, mem, DUMMY).DUMMY
    /\ pc' = "hidden"
    /\ UNCHANGED <<copies, T, realization, place, live, val, c, caller, target,
                   unwinding, panicked, clog, zeroFills, teardowns, direct>>

NextHide ==
    \/ call_hide_mem
    \/ call_hide_ptr

SpecHide == InitHide /\ [][NextHide]_vars

\* ================================================================ claims
\* The location is about to meet an ordinary teardown: clear's own
\* drop_in_place, the Box's drop glue, or the owner's scope end.
TeardownPending ==
    \/ pc \in {"drop_in_place", "done", "returned"}
    \/ pc = "release" /\ c._place.kind = "box"

\* C1 (as claimed): over any sequence of scope exit, into_place and
\* into_uncleared_place, the zero-fill step runs at most once on the handle.
C1_ZeroFillAtMostOnce == zeroFills <= 1

\* C2 (as claimed): once an Active wrapper is gone by implicit destruction,
\* the clear has happened before the handle's release: a zero-fill was done
\* and the storage reads the post-zero value.
C2_ClearedBeforeRelease ==
    (via = "drop" /\ c.st = "dropped") =>
        /\ zeroFills >= 1
        /\ mem[Target] = PostZero(T, Len(atCall))

\* C3: into_place on an owning handle returns the handle it was built on
\* (same address, still allocated), and the content behind it is the type's
\* post-zero value: zeros for a slice, the default for a Default type.
C3_IntoPlaceReturnsCleared ==
    (via = "into_place" /\ pc = "returned" /\ place.kind = "box") =>
        /\ ret = place
        /\ ret.addr \in live
        /\ c.st = "forgotten"
        /\ mem[ret.addr] = PostZero(T, Len(atCall))

C3_Witness ==
    /\ via = "into_place" /\ pc = "returned" /\ place.kind = "box"
    /\ T.kind = "dflt" /\ ~AllZero(T.dflt)
    /\ Len(atCall) > 0 /\ NoZero(atCall) /\ atCall # T.dflt

\* C4: into_uncleared_place returns the original handle, address unchanged,
\* content identical to what the wrapper held at the call; it runs no
\* teardown, zero-fill or reconstruction, and no clear fires afterwards,
\* up to and including the handle's own destruction.
C4_IntoUnclearedPreserves ==
    (via = "into_uncleared_place") =>
        /\ ret = place
        /\ c.st = "forgotten"
        /\ mem[ret.addr] = atCall
        /\ clog = <<>>
        /\ zeroFills = 0
        /\ pc \in {"returned", "end"}
        /\ pc = "returned" => (val = "valid" /\ teardowns = 0)
        /\ (pc = "returned" /\ ret.kind = "box") => ret.addr \in live

C4_Witness ==
    /\ via = "into_uncleared_place" /\ pc = "end"
    /\ Len(atCall) > 0 /\ NoZero(atCall) /\ atCall # PostZero(T, Len(atCall))

\* C10 (as claimed): the location is never both torn down without having
\* been zeroed and still awaiting an ordinary teardown, and the teardown of
\* a value never runs twice.
C10_NoStaleTeardown ==
    /\ teardowns <= 1
    /\ ~(val = "torn" /\ TeardownPending)

\* C5 (as claimed): after clear returns on a value whose bytes were all
\* non-zero, every byte of the value is zero.
C5_AllZeroAfterClear ==
    (pc = "cleared" /\ NoZero(atCall)) => AllZero(mem[target])

\* C5 (amended): after clear returns on a value whose bytes were all
\* non-zero, every byte is the byte of the type's post-zero value: zero for
\* a slice and for a type whose default is all-zero, the default's byte
\* otherwise; an original byte remains only where the default has the same.
C5_PostZeroAfterClear ==
    (pc = "cleared" /\ NoZero(atCall)) =>
        /\ mem[target] = PostZero(T, Len(atCall))
        /\ \A i \in 1..Len(atCall) : mem[target][i] \in {0, T.dflt[i]}
        /\ (T.kind = "slice" \/ AllZero(T.dflt)) => AllZero(mem[target])

C5_Witness ==
    /\ pc = "cleared" /\ via = "Clear"
    /\ Len(atCall) > 1 /\ NoZero(atCall)
    /\ T.kind = "dflt" /\ ~AllZero(T.dflt) /\ T.dflt # atCall

\* C6: while the wrapper is Active, every access through it reads, compares,
\* hashes and writes exactly as the same access made directly through the
\* handle: the storage written through the wrapper equals the twin written
\* directly, and every read agrees, against any other operand.
C6_TransparentForwarding ==
    (pc = "active") =>
        /\ c.st = "active"
        /\ mem = direct
        /\ mem[deref(c)] = direct[P_deref(place)]
        /\ \A i \in 1..Len(mem[Target]) : index(c, i, mem) = P_index(place, i, direct)
        /\ \A h \in 0..1 : hash(c, h, mem) = P_hash(place, h, direct)
        /\ \A w \in AllContents :
            LET o == new([kind |-> "borrow", addr |-> Other])
                m2 == [mem EXCEPT ![Other] = w]
                d2 == [direct EXCEPT ![Other] = w]
            IN  /\ eq(c, o, m2) = P_eq(place, o._place, d2)
                /\ ne(c, o, m2) = P_ne(place, o._place, d2)
                /\ partial_cmp(c, o, m2) = P_partial_cmp(place, o._place, d2)
                /\ lt(c, o, m2) = P_lt(place, o._place, d2)
                /\ le(c, o, m2) = P_le(place, o._place, d2)
                /\ gt(c, o, m2) = P_gt(place, o._place, d2)
                /\ ge(c, o, m2) = P_ge(place, o._place, d2)
                /\ cmp(c, o, m2) = P_cmp(place, o._place, d2)

C6_Witness ==
    /\ pc = "active" /\ c.st = "active"
    /\ Len(mem[Target]) > 1 /\ NoZero(mem[Target])
    /\ mem[Target] # mem[Other]
    /\ mem[Target][1] # mem[Target][2]

\* C7: under each of the three realizations the barrier changes nothing a
\* caller can see: hide_mem leaves every byte of the region (sized or
\* slice) and of all other storage as it was, and hide_ptr returns the
\* handle it was given, same address, content untouched.
C7_BarrierNoEffect ==
    (pc = "hidden") =>
        /\ mem = direct
        /\ mem[Target] = atCall
        /\ live = {"heap"}
        /\ via = "hide_ptr" => (ret = place /\ mem[ret.addr] = atCall)

C7_Witness ==
    /\ pc = "hidden" /\ via = "hide_ptr" /\ realization = "fallback"
    /\ T.kind = "slice" /\ Len(atCall) > 1 /\ NoZero(atCall)
    /\ DUMMY = "local"

IsPrefix(s, t) == Len(s) <= Len(t) /\ \A i \in 1..Len(s) : s[i] = t[i]

\* C8 (as claimed): in both implementations the steps of a clear run in the
\* order teardown, zero-fill, barrier, reconstruction.
C8_StepOrder ==
    IsPrefix(clog, <<"drop_in_place", "write_bytes", "hide_mem", "initialize">>)

\* C9: when the reconstruction step fails, the location holds only zero
\* bytes at the point of failure; and at every point of a clear the location
\* holds the original content, all zeros, or the reconstructed value, never
\* a mix.
C9_ZeroAtReconstructionFailure ==
    /\ (panicked = "initialize" /\ pc \in {"panic", "panicked"}) =>
           (AllZero(mem[target]) /\ zeroFills = 1)
    /\ target # "none" =>
           mem[target] \in {atCall, Zeros(Len(atCall)), T.dflt}

C9_Witness ==
    /\ panicked = "initialize" /\ pc = "panic"
    /\ Len(atCall) > 1 /\ NoZero(atCall)
    /\ ~AllZero(T.dflt)

\* --------------------------------------------------- impl Clone for ClearOnDrop
\* clone_from calls allowed on one wrapper.
MaxCloneFrom == 1

\* P: DerefMut + Clone leaves owning handles (a `&mut T` is not Clone): the
\* wrapper's own allocation, the source's, and the one Box::clone makes.
CloneAddrs == {"heap", "src", "fresh"}

\* The wrapper passed as `&self` to clone and as `source` to clone_from.
Source == new([kind |-> "box", addr |-> "src"])

\* Clone::clone(&self._place) of a Box: a new allocation holding a copy.
P_clone(p, m) ==
    [place |-> [kind |-> "box", addr |-> "fresh"],
     mem |-> [m EXCEPT !["fresh"] = m[P_deref(p)]]]

\* Clone::clone_from(&mut self._place, &source._place) of a Box: the content
\* of the source is copied into the storage of the destination.
P_clone_from(p, q, m) == [m EXCEPT ![P_deref_mut(p)] = m[P_deref(q)]]

InitClone ==
    /\ T \in Types
    /\ realization \in Realizations
    /\ place = Place("box")
    /\ \E v \in Contents(Len(T.dflt)) :
        mem = [a \in CloneAddrs |->
                 IF a = "src" THEN v ELSE PostZero(T, Len(T.dflt))]
    /\ direct = mem
    /\ live = {"heap", "src"}
    /\ val = "valid"
    /\ c = NoWrapper
    /\ caller = "none"
    /\ target = "none"
    /\ unwinding = FALSE
    /\ panicked = "none"
    /\ clog = <<>>
    /\ zeroFills = 0
    /\ teardowns = 0
    /\ ret = NoPlace
    /\ via = "none"
    /\ atCall = <<>>
    /\ DUMMY = "none"
    /\ copies = 0
    /\ pc = "start"

\* Clone::clone: ClearOnDrop { _place: Clone::clone(&self._place) }. The
\* result is the wrapper followed from here on; `place` is its handle.
clone ==
    /\ pc = "start"
    /\ c' = [_place |-> P_clone(Source._place, mem).place, st |-> "active"]
    /\ place' = P_clone(Source._place, mem).place
    /\ mem' = P_clone(Source._place, mem).mem
    /\ direct' = P_clone(Source._place, direct).mem
    /\ live' = live \cup {P_clone(Source._place, mem).place.addr}
    /\ via' = "clone"
    /\ pc' = "active"
    /\ UNCHANGED <<copies, T, realization, val, caller, target, unwinding,
                   panicked, clog, zeroFills, teardowns, ret, atCall, DUMMY>>

\* Clone::clone_from, up to its call self.clear().
clone_from ==
    /\ pc = "active"
    /\ copies < MaxCloneFrom
    /\ via' = "clone_from"
    /\ atCall' = mem[deref(c)]
    /\ caller' = "clone_from"
    /\ target' = deref_mut(c)
    /\ clog' = <<>>
    /\ pc' = "drop_in_place"
    /\ UNCHANGED <<copies, T, realization, place, mem, live, val, c,
                   unwinding, panicked, zeroFills, teardowns, ret, direct,
                   DUMMY>>

\* Clone::clone_from, after self.clear() returned:
\* Clone::clone_from(&mut self._place, &source._place). The wrapper stays
\* as it is; the value now behind it is a new one.
clone_from_tail ==
    /\ pc = "clone_from_tail"
    /\ clog' = Append(clog, "clone_from")
    /\ mem' = P_clone_from(c._place, Source._place, mem)
    /\ direct' = P_clone_from(place, Source._place, direct)
    /\ val' = "valid"
    /\ teardowns' = 0
    /\ copies' = copies + 1
    /\ pc' = "active"
    /\ UNCHANGED <<T, realization, place, live, c, caller, target, unwinding,
                   panicked, zeroFills, ret, via, atCall, DUMMY>>

NextClone ==
    \/ New
    \/ clone
    \/ Write
    \/ clone_from
    \/ clone_from_tail
    \/ into_uncleared_place
    \/ into_place
    \/ into_place_tail
    \/ drop
    \/ clear_drop_in_place
    \/ clear_write_bytes
    \/ clear_hide_mem
    \/ clear_initialize
    \/ unwind
    \/ release
    \/ scope_end

SpecClone == InitClone /\ [][NextClone]_vars

\* ------------------------------------------------------ clone and clone_from
ClearSteps == <<"drop_in_place", "write_bytes", "hide_mem", "initialize">>

\* clone_from copies only after a full clear of the destination: the copy is
\* the step after the four steps of a clear, and it starts from storage that
\* reads the post-zero value.
CloneFromAfterFullClear ==
    /\ (pc = "clone_from_tail") =>
           /\ clog = ClearSteps
           /\ val = "valid"
           /\ mem[target] = PostZero(T, Len(atCall))
    /\ (\E i \in 1..Len(clog) : clog[i] = "clone_from") =>
           clog = Append(ClearSteps, "clone_from")

\* Neither clone nor clone_from, nor anything done later to the wrapper they
\* leave, writes to the storage of the source.
SourceUntouched == mem["src"] = direct["src"] /\ "src" \in live

\* After clone_from returned, the destination is Active on the storage it
\* had, and reads what the source held (or what was written since).
DestinationStaysActive ==
    (pc = "active" /\ copies > 0) =>
        /\ c.st = "active"
        /\ deref(c) = Target
        /\ mem[Target] = direct[Target]

\* clone gives an Active wrapper on storage of its own, and whatever
\* happens to it later touches no other storage.
CloneIsSeparate ==
    (place.addr = "fresh") =>
        /\ c._place = place
        /\ deref(c) # deref(Source)
        /\ mem["heap"] = direct["heap"]

\* The content copied in by clone_from is cleared when the destination
\* terminates: by scope exit, or by into_place.
CopiedContentCleared ==
    /\ (copies > 0 /\ via = "drop" /\ c.st = "dropped") =>
           /\ zeroFills >= copies + 1
           /\ mem[Target] = PostZero(T, Len(atCall))
    /\ (copies > 0 /\ via = "into_place" /\ pc = "returned") =>
           /\ zeroFills >= copies + 1
           /\ mem[ret.addr] = PostZero(T, Len(atCall))

\* C11 (as claimed): clone_from on an Active wrapper runs the full clear on
\* the destination before anything of the source is copied in, leaves the
\* source as it was and the destination Active, so that the content copied
\* in is itself cleared when the destination later ends by scope exit or by
\* into_place; clone gives a separate Active wrapper whose end clears only
\* its own storage.
C11_CloneFromClearsThenCopies ==
    /\ CloneFromAfterFullClear
    /\ SourceUntouched
    /\ DestinationStaysActive
    /\ CloneIsSeparate
    /\ CopiedContentCleared

====
